---- MODULE Spec2Model ----
(***************************************************************************)
(* A model of sitehammer: the two variants of the blog command             *)
(* (blog/main.go holds both programs one after the other), the hammer      *)
(* command (hammer/main.go) and the directory package it uses              *)
(* (directory/enumerator.go).                                              *)
(*                                                                         *)
(* Each command is a sequential program.  Its position is pc; the files    *)
(* it reads are environment inputs drawn where the code reads them; the    *)
(* files and directories it writes are state.                              *)
(***************************************************************************)
EXTENDS Integers, Sequences, FiniteSets, TLC

\* ------------------------------------------------------------------ bounds

\* Longest descriptor list of a whole blog run; article Ids are 1..MaxArticles.
MaxArticles == 3

\* Longest descriptor list handed to validateDescriptors on its own.
MaxLen == 3

\* Largest article Id in those lists.
MaxId == 2

\* Longest article list handed to the front-matter stage on its own.
MaxList == 6

\* Most entries in the directory the hammer command runs in.
MaxEntries == 4

\* ------------------------------------------------------- program constants

numberOfArticlesOnIndexPage == 5

VARIABLES
    variant,      \* 1, 2: which blog program runs; 0: the hammer command
    pc,           \* position of the running program
    descriptors,  \* main's descriptors, once loaded
    articles,     \* the articleData built so far, by position
    idx,          \* completed iterations of the loop pc is in
    err,          \* the error the run ended with (Nil while it runs)
    articleDir,   \* articleDirName: "absent", "dir" or "file"
    outDir,       \* Id -> state of <articleDir>/<Id>: "absent" or "dir"
    outHtml,      \* Id -> content of <articleDir>/<Id>/index.html
    indexFile,    \* content of ./index.html
    tmpFile,      \* content of ./index.html.inprogress
    index0,       \* content of ./index.html when the run started
    buffer,       \* outputWriter of emitStaticHTMLForFrontMatter
    srcRead,      \* what reading src/<Id>/abstract and body returned, by position
    attempted,    \* positions whose article rendering touched the filesystem
    entries,      \* hammer: the listing ioutil.ReadDir(".") returns
    site,         \* hammer: name -> the file _site/<name>
    calls,        \* hammer: the MemberHandler's calls, each with what it returned
    copied,       \* hammer: the names processSourceFile wrote under _site
    umask,        \* hammer: the permission bits the process's umask clears
    nav           \* what the article template's calls of the FuncMap returned

vars == <<variant, pc, descriptors, articles, idx, err, articleDir, outDir,
          outHtml, indexFile, tmpFile, index0, buffer, srcRead, attempted,
          entries, site, calls, copied, umask, nav>>

hammerVars == <<entries, site, calls, copied, umask>>

\* ------------------------------------------------------------------ errors

\* A Go error value: what failed, and for which article Id (or entry).
\* inner is the error a recovery was attempted from ("" when there is none).
Nil == [kind |-> "nil", id |-> 0, inner |-> ""]

Err(kind, id) == [kind |-> kind, id |-> id, inner |-> ""]

\* -------------------------------------------------------------- descriptors

\* type descriptor of variant 1.
descriptor1(id, title, author, published) ==
    [Id |-> id, Title |-> title, Author |-> author, Published |-> published]

\* type descriptor of variant 2, which adds Email.
descriptor2(id, title, author, email, published) ==
    [Id |-> id, Title |-> title, Author |-> author, Email |-> email,
     Published |-> published]

\* The descriptors json.Unmarshal can deliver, over small field alphabets.
DescriptorsOf(v, ids, titles, authors, publisheds) ==
    IF v = 1
    THEN {descriptor1(i, t, a, p) :
            i \in ids, t \in titles, a \in authors, p \in publisheds}
    ELSE {descriptor2(i, t, a, "e", p) :
            i \in ids, t \in titles, a \in authors, p \in publisheds}

SeqsUpTo(S, n) == UNION {[1..k -> S] : k \in 0..n}

\* ------------------------------------------------------ validateDescriptors

\* A plausible slip: the Published check is left out.
RECURSIVE validateFrom1_NoPublished(_, _)
validateFrom1_NoPublished(ds, i) ==
    IF i > Len(ds) THEN Nil
    ELSE LET d == ds[i] IN
         IF d.Title = "" THEN Err("zero-length title", d.Id)
         ELSE IF d.Author = "" THEN Err("zero-length author", d.Id)
         ELSE IF \E j \in (i + 1)..Len(ds) : d.Id = ds[j].Id
              THEN Err("more than one article", d.Id)
         ELSE validateFrom1_NoPublished(ds, i + 1)

\* Variant 1: the body of "for i, d := range ds", from position i on.
RECURSIVE validateFrom1(_, _)
validateFrom1(ds, i) ==
    IF i > Len(ds) THEN Nil
    ELSE LET d == ds[i] IN
         IF d.Title = "" THEN Err("zero-length title", d.Id)
         ELSE IF d.Author = "" THEN Err("zero-length author", d.Id)
         ELSE IF d.Published = ""
              THEN Err("zero-length publication timestamp", d.Id)
         ELSE IF \E j \in (i + 1)..Len(ds) : d.Id = ds[j].Id
              THEN Err("more than one article", d.Id)
         ELSE validateFrom1(ds, i + 1)

validateDescriptors1(ds) == validateFrom1(ds, 1)

\* A plausible slip: only the next descriptor is compared, not all later ones.
RECURSIVE validateFrom2_Adjacent(_, _)
validateFrom2_Adjacent(ds, i) ==
    IF i > Len(ds) THEN Nil
    ELSE LET d == ds[i] IN
         IF d.Title = "" THEN Err("zero-length title", d.Id)
         ELSE IF d.Author = "" THEN Err("zero-length author", d.Id)
         ELSE IF d.Published = ""
              THEN Err("zero-length publication timestamp", d.Id)
         ELSE IF i + 1 <= Len(ds) /\ d.Id = ds[i + 1].Id
              THEN Err("more than one article", d.Id)
         ELSE validateFrom2_Adjacent(ds, i + 1)

\* A plausible slip: the duplicate scan runs before the field checks.
RECURSIVE validateFrom2_ScanFirst(_, _)
validateFrom2_ScanFirst(ds, i) ==
    IF i > Len(ds) THEN Nil
    ELSE LET d == ds[i] IN
         IF \E j \in (i + 1)..Len(ds) : d.Id = ds[j].Id
         THEN Err("more than one article", d.Id)
         ELSE IF d.Title = "" THEN Err("zero-length title", d.Id)
         ELSE IF d.Author = "" THEN Err("zero-length author", d.Id)
         ELSE IF d.Published = ""
              THEN Err("zero-length publication timestamp", d.Id)
         ELSE validateFrom2_ScanFirst(ds, i + 1)

\* Variant 2: the same loop, in the second program.
RECURSIVE validateFrom2(_, _)
validateFrom2(ds, i) ==
    IF i > Len(ds) THEN Nil
    ELSE LET d == ds[i] IN
         IF d.Title = "" THEN Err("zero-length title", d.Id)
         ELSE IF d.Author = "" THEN Err("zero-length author", d.Id)
         ELSE IF d.Published = ""
              THEN Err("zero-length publication timestamp", d.Id)
         ELSE IF \E j \in (i + 1)..Len(ds) : d.Id = ds[j].Id
              THEN Err("more than one article", d.Id)
         ELSE validateFrom2(ds, i + 1)

validateDescriptors2(ds) == validateFrom2(ds, 1)

validateDescriptors(v, ds) ==
    IF v = 1 THEN validateDescriptors1(ds) ELSE validateDescriptors2(ds)

\* ------------------------------------------------------------ file contents

NoFile == [kind |-> "none", data |-> <<>>]

\* What an earlier run of the program left behind.
OldFile == [kind |-> "old", data |-> <<>>]

\* A file that was created or truncated and not written to its end.
Partial == [kind |-> "partial", data |-> <<>>]

\* The bytes tmpl.Execute produces are a function of the data it is given.
Page(data) == [kind |-> "page", data |-> data]

\* What ioutil.ReadFile returns: the bytes, or an error.
ReadErr == [ok |-> FALSE, data |-> ""]

ReadOk(bytes) == [ok |-> TRUE, data |-> bytes]

\* No ReadFile call was made.
NotRead == [ok |-> FALSE, data |-> "not read"]

AbstractReads == {ReadErr, ReadOk("hi")}

BodyReads == {ReadErr, ReadOk(""), ReadOk("text")}

\* bytes.NewBuffer(bs).String(): the same bytes, as a string.
bytesAsString(bs) == bs

\* ----------------------------------------------------------- ArticleStore

\* A plausible slip: err declared anew by :=, so the named result stays nil.
abstractFor2_Shadowed(id, r) ==
    IF ~r.ok THEN [text |-> "", err |-> Nil]
    ELSE [text |-> bytesAsString(r.data), err |-> Nil]

\* Variant 1.  content, err := ReadFile(...) assigns the named result err
\* (it is declared in the function's own block), so the bare return hands
\* the read error back.
abstractFor1(id, r) ==
    IF ~r.ok THEN [text |-> "", err |-> Err("read abstract", id)]
    ELSE [text |-> bytesAsString(r.data), err |-> Nil]

\* Variant 2: the same text as variant 1.
abstractFor2(id, r) ==
    IF ~r.ok THEN [text |-> "", err |-> Err("read abstract", id)]
    ELSE [text |-> bytesAsString(r.data), err |-> Nil]

\* *template.HTML: the nil pointer, or a pointer to a string.
NilPtr == <<>>

PtrTo(s) == <<s>>

\* A plausible slip: an empty body file is taken for a missing one.
bodyFor1_EmptyIsNil(id, r) ==
    IF ~r.ok \/ r.data = "" THEN NilPtr ELSE PtrTo(bytesAsString(r.data))

bodyFor1(id, r) ==
    IF ~r.ok THEN NilPtr ELSE PtrTo(bytesAsString(r.data))

bodyFor2(id, r) ==
    IF ~r.ok THEN [body |-> "", hasBody |-> FALSE]
    ELSE [body |-> bytesAsString(r.data), hasBody |-> TRUE]

\* type articleData of variant 1.
articleData1(d, abstract, body) ==
    [Id |-> d.Id, Title |-> d.Title, Author |-> d.Author,
     Published |-> d.Published, Abstract |-> abstract, Body |-> body]

\* type articleData of variant 2.
articleData2(d, abstract, body, hasBody) ==
    [Id |-> d.Id, Title |-> d.Title, Author |-> d.Author, Email |-> d.Email,
     Published |-> d.Published, Abstract |-> abstract, Body |-> body,
     HasBody |-> hasBody]

\* ------------------------------------------------- environment's outcomes

\* Reading, parsing and executing a template: all fine, or the first failure.
TemplateOutcomes == {"ok", "read", "parse", "exec"}

\* ensureIsDir's system calls: all fine, os.Stat fails with something other
\* than "does not exist", or os.Mkdir fails.
DirOutcomes == {"ok", "stat", "mkdir"}

\* ioutil.WriteFile: written; failed after creating or truncating the file;
\* failed before touching it.
WriteOutcomes == {"ok", "partial", "none"}

\* os.RemoveAll and os.Rename.
CallOutcomes == {"ok", "fail"}

\* ------------------------------------------------------- output directories

\* ensureIsDir on a path in state st.  The error names the article Id the
\* path belongs to (0 for the article directory itself).
ensureIsDir(id, st, o) ==
    IF o = "stat" THEN [st |-> st, err |-> Err("stat", id)]
    ELSE IF st = "absent"
         THEN IF o = "mkdir" THEN [st |-> st, err |-> Err("mkdir", id)]
              ELSE [st |-> "dir", err |-> Nil]
    ELSE IF st # "dir" THEN [st |-> st, err |-> Err("not a directory", id)]
    ELSE [st |-> st, err |-> Nil]

\* Variant 1: the article directory, then the article's own directory.
ensureExistanceOfOutputDirectories(id, adir, kdir, o1, o2) ==
    LET e1 == ensureIsDir(0, adir, o1)
        e2 == ensureIsDir(id, kdir, o2)
    IN  IF e1.err # Nil
        THEN [articleDir |-> e1.st, dir |-> kdir, err |-> e1.err]
        ELSE [articleDir |-> e1.st, dir |-> e2.st, err |-> e2.err]

\* ioutil.WriteFile(name, content, 0644) on a file holding old.
WriteFile(old, content, w) ==
    IF w = "ok" THEN content ELSE IF w = "partial" THEN Partial ELSE old

\* unlinkHtmlAndDir: os.RemoveAll(<articleDir>/<id>).  A failed call leaves
\* the directory, and what is in it, in place.
unlinkHtmlAndDir(id, kdir, khtml, rm) ==
    IF rm = "ok" THEN [dir |-> "absent", html |-> NoFile, err |-> Nil]
    ELSE [dir |-> kdir, html |-> khtml, err |-> Err("remove", id)]

\* fmt.Errorf("%s (while recovering from %s)", err2, err)
Recovering(err2, e) == [kind |-> err2.kind, id |-> err2.id, inner |-> e.kind]

\* ------------------------------------------------------- ArticleRenderer

Result1(e, adir, kdir, khtml, keys) ==
    [err |-> e, articleDir |-> adir, dir |-> kdir, html |-> khtml,
     keys |-> keys]

\* Variant 1, emitStaticHTMLForArticle(d), under the outcomes o.  keys is
\* <<the articleData>> once it has been built, <<>> before.
emitStaticHTMLForArticle1(d, o, adir, kdir, khtml) ==
    LET a == abstractFor1(d.Id, o.ra)
        body == bodyFor1(d.Id, o.rb)
        keys == articleData1(d, a.text, body)
        dirs == ensureExistanceOfOutputDirectories(d.Id, adir, kdir, o.d1, o.d2)
        written == WriteFile(khtml, Page(<<keys>>), o.w)
        undo == unlinkHtmlAndDir(d.Id, dirs.dir, written, o.rm)
    IN  IF a.err # Nil THEN Result1(a.err, adir, kdir, khtml, <<>>)
        ELSE IF o.t = "read"
             THEN Result1(Err("read template", d.Id), adir, kdir, khtml, <<>>)
        ELSE IF o.t = "parse"
             THEN Result1(Err("parse template", d.Id), adir, kdir, khtml, <<>>)
        ELSE IF o.t = "exec"
             THEN Result1(Err("execute template", d.Id), adir, kdir, khtml,
                          <<keys>>)
        ELSE IF dirs.err # Nil
             THEN Result1(dirs.err, dirs.articleDir, dirs.dir, khtml, <<keys>>)
        ELSE IF o.w # "ok"
             THEN IF undo.err # Nil
                  THEN Result1(undo.err, dirs.articleDir, undo.dir, undo.html,
                               <<keys>>)
                  ELSE Result1(Err("write article", d.Id), dirs.articleDir,
                               undo.dir, undo.html, <<keys>>)
        ELSE Result1(Nil, dirs.articleDir, dirs.dir, written, <<keys>>)

\* Variant 2, the FuncMap of emitStaticHTMLForArticle.  i is an index from 0,
\* last the number of articles.

\* A plausible slip: the last index is taken for the length.
HasNextLink_LastIsIndex(i, last) == i # last

HasNextLink(i, last) == i + 1 # last

HasPrevLink(i) == i # 0

\* articles[k] of Go, k from 0: the article, or the run-time panic of an
\* index out of range.
IndexExpr(as, k) ==
    IF k \in 0..(Len(as) - 1)
    THEN [panic |-> FALSE, article |-> <<as[k + 1]>>]
    ELSE [panic |-> TRUE, article |-> <<>>]

NextArticle(as, i) == IndexExpr(as, i + 1)

PrevArticle(as, i) == IndexExpr(as, i - 1)

\* The params map of variant 2's template: the article, the site's base URL,
\* the index (from 0) and the number of articles.
params2(as, i) ==
    [a |-> as[i], home |-> "http://www.falvotech.com", i |-> i - 1,
     last |-> Len(as)]

\* Variant 2, emitStaticHTMLForArticle(articles, index, length), for the
\* article at position i (index i - 1).
emitStaticHTMLForArticle2(as, i, o, khtml) ==
    LET id == as[i].Id IN
    IF o.t = "read" THEN [err |-> Err("read template", id), html |-> khtml]
    ELSE IF o.t = "parse"
         THEN [err |-> Err("parse template", id), html |-> khtml]
    ELSE IF o.t = "exec"
         THEN [err |-> Err("execute template", id), html |-> khtml]
    ELSE [err |-> IF o.w = "ok" THEN Nil ELSE Err("write article", id),
          html |-> WriteFile(khtml, Page(<<params2(as, i)>>), o.w)]

\* Variant 2, one iteration of generateArticlePages' loop.
generateArticlePage2(as, i, o, kdir, khtml) ==
    LET id == as[i].Id
        e == ensureIsDir(id, kdir, o.d2)
        r == emitStaticHTMLForArticle2(as, i, o, khtml)
        undo == unlinkHtmlAndDir(id, e.st, r.html, o.rm)
    IN  IF e.err # Nil THEN [err |-> e.err, dir |-> e.st, html |-> khtml]
        ELSE IF r.err # Nil
             THEN [err |-> IF undo.err # Nil THEN Recovering(undo.err, r.err)
                           ELSE r.err,
                   dir |-> undo.dir, html |-> undo.html]
        ELSE [err |-> Nil, dir |-> e.st, html |-> r.html]

\* ----------------------------------------------------------- IndexRenderer

\* A plausible slip: the leading articles are taken, not the trailing ones.
mostRecentDescriptors1_Leading(ds) ==
    SubSeq(ds, 1, IF Len(ds) < numberOfArticlesOnIndexPage
                  THEN Len(ds) ELSE numberOfArticlesOnIndexPage)

\* Variant 1: ds[start:finish] of emitStaticHTMLForFrontMatter.
mostRecentDescriptors1(ds) ==
    LET finish == Len(ds)
        start == IF finish - numberOfArticlesOnIndexPage < 0
                 THEN 0 ELSE finish - numberOfArticlesOnIndexPage
    IN  SubSeq(ds, start + 1, finish)

max(a, b) == IF a > b THEN a ELSE b

\* Variant 2: mostRecent, articles[first:last].
mostRecent2(as) ==
    LET last == Len(as)
        first == max(0, last - 5)
    IN  SubSeq(as, first + 1, last)

\* The list the index template is executed against.
mostRecent(v, ds, as) ==
    IF v = 1 THEN mostRecentDescriptors1(ds) ELSE mostRecent2(as)

\* A plausible slip: the new index is written over the published one.
indexFileCreated_InPlace(files, content) == [files EXCEPT !.index = content]

\* ioutil.WriteFile(indexFileCreated, ...): the file the new index goes to.
indexFileCreated(files, content) == [files EXCEPT !.tmp = content]

\* os.Rename(indexFileCreated, outputIndexFile)
Rename(files) == [index |-> files.tmp, tmp |-> NoFile]

\* ------------------------------------------------------------------ inputs

Ids == 1..MaxArticles

\* The descriptor lists a whole run is given: complete descriptors of every
\* Id (so lists with a duplicate Id are among them) and one incomplete one.
BlogDescriptors(v) ==
    DescriptorsOf(v, Ids, {"T"}, {"A"}, {"P"})
        \cup DescriptorsOf(v, {1}, {"T"}, {""}, {"P"})

BlogInputs(v) == SeqsUpTo(BlogDescriptors(v), MaxArticles)

\* ------------------------------------------------------------------- states

\* tmpl.Execute of the article template has called none of the FuncMap's
\* functions: each field holds the result of the call, once it is made.
NoCalls == [hasNext |-> <<>>, hasPrev |-> <<>>, next |-> <<>>, prev |-> <<>>]

HammerIdle ==
    /\ entries = <<>>
    /\ site = <<>>
    /\ calls = <<>>
    /\ copied = {}
    /\ umask = {}

\* The output tree a run can find: nothing; an article directory, empty or
\* holding the articles of an earlier run; something that is no directory in
\* the article directory's place.
InitOutput(ids) ==
    /\ articleDir \in {"absent", "dir", "file"}
    /\ outDir \in {[id \in ids |-> st] : st \in {"absent", "dir"}}
    /\ articleDir # "dir" => \A id \in ids : outDir[id] = "absent"
    /\ outHtml = [id \in ids |-> IF outDir[id] = "dir" THEN OldFile ELSE NoFile]
    /\ indexFile \in {NoFile, OldFile}
    /\ tmpFile = NoFile
    /\ index0 = indexFile

\* A blog run, at the start of main.
Init ==
    /\ variant \in {1, 2}
    /\ pc = "load"
    /\ descriptors = <<>>
    /\ articles = <<>>
    /\ idx = 0
    /\ err = Nil
    /\ buffer = NoFile
    /\ srcRead = <<>>
    /\ attempted = {}
    /\ InitOutput(Ids)
    /\ HammerIdle
    /\ nav = NoCalls

\* A plausible slip: abend prints the diagnostic and main carries on.
abend_LogOnly(e) ==
    /\ pc' = pc
    /\ err' = e

\* abend(err) with err non-nil: the diagnostic is printed and the run ends.
abend(e) ==
    /\ pc' = "aborted"
    /\ err' = e

\* ------------------------------------------------------------ blog: main

\* main up to json.Unmarshal: the argument, the file, its JSON.
Load ==
    /\ pc = "load"
    /\ \/ \E k \in {"no argument", "read descriptors", "unmarshal"} :
            /\ abend(Err(k, 0))
            /\ UNCHANGED descriptors
       \/ \E ds \in BlogInputs(variant) :
            /\ descriptors' = ds
            /\ pc' = "validate"
            /\ err' = err
    /\ UNCHANGED <<variant, articles, idx, articleDir, outDir, outHtml,
                   indexFile, tmpFile, index0, buffer, srcRead, attempted>>
    /\ UNCHANGED hammerVars
    /\ UNCHANGED nav

\* err = validateDescriptors(descriptors); abend(err)
Validate ==
    /\ pc = "validate"
    /\ LET e == validateDescriptors(variant, descriptors) IN
         /\ err' = e
         /\ pc' = IF e # Nil THEN "aborted"
                  ELSE IF variant = 1 THEN "render" ELSE "fetch"
    /\ UNCHANGED <<variant, descriptors, articles, idx, articleDir, outDir,
                   outHtml, indexFile, tmpFile, index0, buffer, srcRead,
                   attempted>>
    /\ UNCHANGED hammerVars
    /\ UNCHANGED nav

\* Variant 1: one iteration of main's loop, emitStaticHTMLForArticle and
\* abend.
Render1 ==
    /\ variant = 1
    /\ pc = "render"
    /\ idx < Len(descriptors)
    /\ \E ra \in AbstractReads :
       \E rb \in IF ra.ok THEN BodyReads ELSE {NotRead} :
       \E t \in IF ra.ok THEN TemplateOutcomes ELSE {"ok"} :
       \E d1 \in IF t = "ok" THEN DirOutcomes ELSE {"ok"} :
       \E d2 \in IF t = "ok" /\ d1 = "ok" THEN DirOutcomes ELSE {"ok"} :
       \E w \in IF d1 = "ok" /\ d2 = "ok" THEN WriteOutcomes ELSE {"ok"} :
       \E rm \in IF w # "ok" THEN CallOutcomes ELSE {"ok"} :
         LET d == descriptors[idx + 1]
             o == [ra |-> ra, rb |-> rb, t |-> t, d1 |-> d1, d2 |-> d2,
                   w |-> w, rm |-> rm]
             r == emitStaticHTMLForArticle1(d, o, articleDir, outDir[d.Id],
                                            outHtml[d.Id])
         IN  /\ articleDir' = r.articleDir
             /\ outDir' = [outDir EXCEPT ![d.Id] = r.dir]
             /\ outHtml' = [outHtml EXCEPT ![d.Id] = r.html]
             /\ articles' = articles \o r.keys
             /\ srcRead' = Append(srcRead, [abstract |-> ra, body |-> rb])
             /\ attempted' = attempted \cup {idx + 1}
             /\ err' = r.err
             /\ pc' = IF r.err # Nil THEN "aborted" ELSE "render"
             /\ idx' = IF r.err # Nil THEN idx ELSE idx + 1
    /\ UNCHANGED <<variant, descriptors, indexFile, tmpFile, index0, buffer>>
    /\ UNCHANGED hammerVars
    /\ UNCHANGED nav

\* Variant 2: one iteration of retrieveAbstractsAndBodies' loop, and abend
\* when it returns an error.
Fetch2 ==
    /\ variant = 2
    /\ pc = "fetch"
    /\ idx < Len(descriptors)
    /\ \E ra \in AbstractReads :
       \E rb \in IF ra.ok THEN BodyReads ELSE {NotRead} :
         LET d == descriptors[idx + 1]
             a == abstractFor2(d.Id, ra)
             b == bodyFor2(d.Id, rb)
         IN  /\ srcRead' = Append(srcRead, [abstract |-> ra, body |-> rb])
             /\ err' = a.err
             /\ IF a.err # Nil
                THEN /\ pc' = "aborted"
                     /\ UNCHANGED <<articles, idx>>
                ELSE /\ pc' = "fetch"
                     /\ articles' =
                          Append(articles,
                                 articleData2(d, a.text, b.body, b.hasBody))
                     /\ idx' = idx + 1
    /\ UNCHANGED <<variant, descriptors, articleDir, outDir, outHtml,
                   indexFile, tmpFile, index0, buffer, attempted>>
    /\ UNCHANGED hammerVars
    /\ UNCHANGED nav

\* A plausible slip: the article directory is made before the abstracts and
\* bodies are fetched.
GenerateArticlePages2_BeforeFetch ==
    /\ variant = 2
    /\ pc = "fetch"
    /\ idx = 0
    /\ articleDir = "absent"
    /\ \E o \in DirOutcomes :
         LET e == ensureIsDir(0, articleDir, o) IN
           /\ articleDir' = e.st
           /\ err' = e.err
           /\ pc' = IF e.err # Nil THEN "aborted" ELSE "fetch"
    /\ idx' = idx
    /\ UNCHANGED <<variant, descriptors, articles, outDir, outHtml, indexFile,
                   tmpFile, index0, buffer, srcRead, attempted>>
    /\ UNCHANGED hammerVars
    /\ UNCHANGED nav

\* Variant 2: retrieveAbstractsAndBodies returns, generateArticlePages
\* begins with ensureIsDir(articleDirName).
GenerateArticlePages2 ==
    /\ variant = 2
    /\ pc = "fetch"
    /\ idx = Len(descriptors)
    /\ \E o \in DirOutcomes :
         LET e == ensureIsDir(0, articleDir, o) IN
           /\ articleDir' = e.st
           /\ err' = e.err
           /\ pc' = IF e.err # Nil THEN "aborted" ELSE "render"
    /\ idx' = 0
    /\ UNCHANGED <<variant, descriptors, articles, outDir, outHtml, indexFile,
                   tmpFile, index0, buffer, srcRead, attempted>>
    /\ UNCHANGED hammerVars
    /\ UNCHANGED nav

\* Variant 2: one iteration of generateArticlePages' loop, and abend when
\* it returns an error.
Render2 ==
    /\ variant = 2
    /\ pc = "render"
    /\ idx < Len(articles)
    /\ \E d2 \in DirOutcomes :
       \E t \in IF d2 = "ok" THEN TemplateOutcomes ELSE {"ok"} :
       \E w \in IF d2 = "ok" /\ t = "ok" THEN WriteOutcomes ELSE {"ok"} :
       \E rm \in IF t # "ok" \/ w # "ok" THEN CallOutcomes ELSE {"ok"} :
         LET id == articles[idx + 1].Id
             o == [t |-> t, d2 |-> d2, w |-> w, rm |-> rm]
             r == generateArticlePage2(articles, idx + 1, o, outDir[id],
                                       outHtml[id])
         IN  /\ outDir' = [outDir EXCEPT ![id] = r.dir]
             /\ outHtml' = [outHtml EXCEPT ![id] = r.html]
             /\ attempted' = attempted \cup {idx + 1}
             /\ err' = r.err
             /\ pc' = IF r.err # Nil THEN "aborted" ELSE "render"
             /\ idx' = IF r.err # Nil THEN idx ELSE idx + 1
    /\ UNCHANGED <<variant, descriptors, articles, articleDir, indexFile,
                   tmpFile, index0, buffer, srcRead>>
    /\ UNCHANGED hammerVars
    /\ UNCHANGED nav

\* The article loop has run to its end.
ArticlesDone ==
    /\ pc = "render"
    /\ idx = IF variant = 1 THEN Len(descriptors) ELSE Len(articles)

\* emitStaticHTMLForFrontMatter up to tmpl.Execute: the index template is
\* read, parsed and executed into outputWriter.
EmitFrontMatterExecute ==
    /\ ArticlesDone
    /\ \E t \in TemplateOutcomes :
         IF t = "ok"
         THEN /\ buffer' = Page(mostRecent(variant, descriptors, articles))
              /\ pc' = "indexopen"
              /\ err' = err
         ELSE /\ abend(Err(IF t = "read" THEN "read index template"
                           ELSE IF t = "parse" THEN "parse index template"
                           ELSE "execute index template", 0))
              /\ UNCHANGED buffer
    /\ UNCHANGED <<variant, descriptors, articles, idx, articleDir, outDir,
                   outHtml, indexFile, tmpFile, index0, srcRead, attempted>>
    /\ UNCHANGED hammerVars
    /\ UNCHANGED nav

\* ioutil.WriteFile(indexFileCreated, ...) opens the file, creating or
\* truncating it.
EmitFrontMatterOpen ==
    /\ pc = "indexopen"
    /\ \E w \in {"ok", "none"} :
         IF w = "ok"
         THEN LET f == indexFileCreated([index |-> indexFile, tmp |-> tmpFile],
                                        Partial)
              IN  /\ indexFile' = f.index
                  /\ tmpFile' = f.tmp
                  /\ pc' = "indexwrite"
                  /\ err' = err
         ELSE /\ abend(Err("write index", 0))
              /\ UNCHANGED <<indexFile, tmpFile>>
    /\ UNCHANGED <<variant, descriptors, articles, idx, articleDir, outDir,
                   outHtml, index0, buffer, srcRead, attempted>>
    /\ UNCHANGED hammerVars
    /\ UNCHANGED nav

\* ioutil.WriteFile(indexFileCreated, ...) writes outputWriter's bytes and
\* closes the file.
EmitFrontMatterWrite ==
    /\ pc = "indexwrite"
    /\ \E w \in {"ok", "partial"} :
         IF w = "ok"
         THEN LET f == indexFileCreated([index |-> indexFile, tmp |-> tmpFile],
                                        buffer)
              IN  /\ indexFile' = f.index
                  /\ tmpFile' = f.tmp
                  /\ pc' = "promote"
                  /\ err' = err
         ELSE /\ abend(Err("write index", 0))
              /\ UNCHANGED <<indexFile, tmpFile>>
    /\ UNCHANGED <<variant, descriptors, articles, idx, articleDir, outDir,
                   outHtml, index0, buffer, srcRead, attempted>>
    /\ UNCHANGED hammerVars
    /\ UNCHANGED nav

\* os.Rename(indexFileCreated, outputIndexFile): in main (variant 1), at the
\* end of emitStaticHTMLForFrontMatter (variant 2).
Promote ==
    /\ pc = "promote"
    /\ \E r \in CallOutcomes :
         IF r = "ok"
         THEN LET f == Rename([index |-> indexFile, tmp |-> tmpFile])
              IN  /\ indexFile' = f.index
                  /\ tmpFile' = f.tmp
                  /\ pc' = "done"
                  /\ err' = err
         ELSE /\ abend(Err("rename", 0))
              /\ UNCHANGED <<indexFile, tmpFile>>
    /\ UNCHANGED <<variant, descriptors, articles, idx, articleDir, outDir,
                   outHtml, index0, buffer, srcRead, attempted>>
    /\ UNCHANGED hammerVars
    /\ UNCHANGED nav

Next ==
    \/ Load
    \/ Validate
    \/ Render1
    \/ Fetch2
    \/ GenerateArticlePages2
    \/ Render2
    \/ EmitFrontMatterExecute
    \/ EmitFrontMatterOpen
    \/ EmitFrontMatterWrite
    \/ Promote

\* A whole run of the blog command, either variant.
Spec == Init /\ [][Next]_vars

\* ------------------------------------------- validateDescriptors on its own

\* main right after json.Unmarshal, over every descriptor list of the bounds:
\* any of Title, Author and Published may be empty, Ids may repeat.
InitValidate ==
    /\ variant \in {1, 2}
    /\ pc = "validate"
    /\ descriptors \in
         SeqsUpTo(DescriptorsOf(variant, 1..MaxId, {"", "T"}, {"", "A"},
                                {"", "P"}), MaxLen)
    /\ articles = <<>>
    /\ idx = 0
    /\ err = Nil
    /\ buffer = NoFile
    /\ srcRead = <<>>
    /\ attempted = {}
    /\ articleDir = "absent"
    /\ outDir = [id \in 1..MaxId |-> "absent"]
    /\ outHtml = [id \in 1..MaxId |-> NoFile]
    /\ indexFile = NoFile
    /\ tmpFile = NoFile
    /\ index0 = NoFile
    /\ HammerIdle
    /\ nav = NoCalls

NextValidate == Validate

SpecValidate == InitValidate /\ [][NextValidate]_vars

\* validateDescriptors has returned.
Validated == pc \notin {"load", "validate"}

Complete(d) == d.Title # "" /\ d.Author # "" /\ d.Published # ""

\* Position i has a later descriptor with the same Id.
HasLaterTwin(ds, i) == \E j \in 1..Len(ds) : j > i /\ ds[j].Id = ds[i].Id

SharesAnId(ds) == \E i, j \in 1..Len(ds) : i # j /\ ds[i].Id = ds[j].Id

\* The lowest position that has a later descriptor with the same Id.
FirstTwin(ds) ==
    CHOOSE i \in 1..Len(ds) :
        /\ HasLaterTwin(ds, i)
        /\ \A k \in 1..(i - 1) : ~HasLaterTwin(ds, k)

DuplicateIdError(id) == Err("more than one article", id)

EmptyFieldKinds ==
    {"zero-length title", "zero-length author",
     "zero-length publication timestamp"}

\* C1: validateDescriptors returns nil exactly for the lists in which every
\* descriptor has a non-empty Title, Author and Published and no two
\* descriptors at different positions share an Id; it returns an error for
\* every other list.  Both variants.
C1_NilIffCompleteAndUnique ==
    Validated =>
        ((err = Nil) <=>
            (/\ \A i \in 1..Len(descriptors) : Complete(descriptors[i])
             /\ ~SharesAnId(descriptors)))

\* C1's case: a list of complete descriptors whose only fault is an Id shared
\* by its first and last descriptor has been rejected.
C1_Witness ==
    /\ Validated
    /\ Len(descriptors) >= 3
    /\ \A i \in 1..Len(descriptors) : Complete(descriptors[i])
    /\ descriptors[1].Id = descriptors[Len(descriptors)].Id
    /\ descriptors[1].Id # descriptors[2].Id
    /\ err # Nil

\* C9 as the spec states it: whenever two descriptors share an Id, the error
\* is the duplicate-Id error naming the Id of the lowest-positioned
\* descriptor that has a later twin.
C9_AlwaysDuplicateError ==
    (Validated /\ SharesAnId(descriptors)) =>
        err = DuplicateIdError(descriptors[FirstTwin(descriptors)].Id)

\* C9, amended: whenever two descriptors share an Id, validation fails; the
\* error is the duplicate-Id error naming the Id of the lowest-positioned
\* descriptor with a later twin when every descriptor up to and including
\* that one is complete, and otherwise the empty-field error of the first
\* incomplete descriptor.
C9_DuplicateErrorUnlessIncompleteBefore ==
    (Validated /\ SharesAnId(descriptors)) =>
        LET p == FirstTwin(descriptors)
            holes == {i \in 1..p : ~Complete(descriptors[i])}
        IN  /\ err # Nil
            /\ holes = {} => err = DuplicateIdError(descriptors[p].Id)
            /\ holes # {} =>
                 /\ err.kind \in EmptyFieldKinds
                 /\ \E i \in holes :
                      /\ \A k \in holes : i <= k
                      /\ err.id = descriptors[i].Id

\* C9's case: complete descriptors, the twins not next to each other, and the
\* duplicate-Id error names their Id.
C9_Witness ==
    /\ Validated
    /\ Len(descriptors) >= 3
    /\ \A i \in 1..Len(descriptors) : Complete(descriptors[i])
    /\ descriptors[1].Id = descriptors[3].Id
    /\ descriptors[1].Id # descriptors[2].Id
    /\ err = DuplicateIdError(descriptors[1].Id)

\* The error for the first empty field of d, in the order Title, Author,
\* Published.
FirstEmptyField(d) ==
    IF d.Title = "" THEN "zero-length title"
    ELSE IF d.Author = "" THEN "zero-length author"
    ELSE "zero-length publication timestamp"

\* C10: a descriptor's required fields are checked, Title then Author then
\* Published, before its Id is compared with any later descriptor: when the
\* scan reaches an incomplete descriptor (every earlier one is complete and
\* has no later twin), the error is the error for its first empty field and
\* its Id, also when it has a later twin; never the duplicate-Id error.
C10_FieldsBeforeDuplicateScan ==
    Validated =>
        \A i \in 1..Len(descriptors) :
            (/\ ~Complete(descriptors[i])
             /\ \A k \in 1..(i - 1) :
                  Complete(descriptors[k]) /\ ~HasLaterTwin(descriptors, k))
            => err = Err(FirstEmptyField(descriptors[i]), descriptors[i].Id)

\* C10's case: the second descriptor has an empty Author and an empty
\* Published and a later twin, and is reported for its Author.
C10_Witness ==
    /\ Validated
    /\ Len(descriptors) >= 3
    /\ Complete(descriptors[1])
    /\ descriptors[2].Title # ""
    /\ descriptors[2].Author = ""
    /\ descriptors[2].Published = ""
    /\ descriptors[3].Id = descriptors[2].Id
    /\ err = Err("zero-length author", descriptors[2].Id)

\* ------------------------------------------------------- the blog run's claims

\* The page a successful rendering of the article at position j writes.
ArticlePage(j) ==
    IF variant = 1 THEN Page(<<articles[j]>>)
    ELSE Page(<<params2(articles, j)>>)

\* The run ended because executing the article template failed.
ExecuteFailed ==
    /\ pc = "aborted"
    /\ err.kind = "execute template" \/ err.inner = "execute template"

\* C2 as the spec states it: when executing the template of the article at
\* position K fails, then at the end of the run every article before K has
\* its index.html written, the directory <articleDir>/<K> does not exist, and
\* no article after K was touched by the rendering.  Both variants, from any
\* state of the output directory.
C2_FailedArticleLeavesNoDirectory ==
    ExecuteFailed =>
        LET K == idx + 1 IN
            /\ \A j \in 1..(K - 1) :
                 outHtml[descriptors[j].Id] = ArticlePage(j)
            /\ outDir[descriptors[K].Id] = "absent"
            /\ \A j \in (K + 1)..Len(descriptors) : j \notin attempted

\* C3: in every state of a run ./index.html holds what it held when the run
\* started or the whole newly rendered index; it holds the new index only
\* once the rename has been made, which happens only after the temporary
\* file was written to its end; a run that aborts leaves it as it was.
C3_IndexReplacedOnlyByRename ==
    /\ indexFile = index0 \/ (indexFile = buffer /\ buffer.kind = "page")
    /\ indexFile # index0 => pc = "done"
    /\ pc = "aborted" => indexFile = index0
    /\ pc = "promote" => tmpFile = buffer

\* C3's case: a published index was replaced by the new index of two or more
\* articles, and the temporary file is gone.
C3_Witness ==
    /\ pc = "done"
    /\ index0 = OldFile
    /\ indexFile = buffer
    /\ Len(buffer.data) >= 2
    /\ tmpFile = NoFile

\* src/<Id>/abstract could not be read for the descriptor at position k.
AbstractUnreadable(k) == k \in 1..Len(srcRead) /\ srcRead[k].abstract = ReadErr

\* C4 as the spec states it: an unreadable abstract is an error that ends the
\* run in variant 1; in variant 2 it is no error, the article gets the empty
\* abstract and the run goes on.
C4_Variant2TakesEmptyAbstract ==
    \A k \in 1..Len(descriptors) :
        AbstractUnreadable(k) =>
            IF variant = 1
            THEN pc = "aborted" /\ err = Err("read abstract", descriptors[k].Id)
            ELSE /\ err.kind # "read abstract"
                 /\ Len(articles) >= k
                 /\ articles[k].Abstract = ""

\* C4, amended: an unreadable abstract is an error that ends the run in both
\* variants: abstractFor returns the read error, no articleData is built for
\* that descriptor, no later descriptor is fetched, and in variant 2 no
\* article is rendered at all.
C4_UnreadableAbstractEndsRun ==
    \A k \in 1..Len(descriptors) :
        AbstractUnreadable(k) =>
            /\ pc = "aborted"
            /\ err = Err("read abstract", descriptors[k].Id)
            /\ Len(srcRead) = k
            /\ Len(articles) = k - 1
            /\ variant = 2 => attempted = {}

\* C4's case: variant 2 could not read the second descriptor's abstract.
C4_Witness ==
    /\ variant = 2
    /\ AbstractUnreadable(2)
    /\ Len(articles) = 1
    /\ pc = "aborted"

\* The marker of "no body" in the articleData a.
NoBody(a) == IF variant = 1 THEN a.Body = NilPtr ELSE ~a.HasBody /\ a.Body = ""

\* The marker of a body holding text in the articleData a.
BodyIs(a, text) ==
    IF variant = 1 THEN a.Body = PtrTo(text) ELSE a.HasBody /\ a.Body = text

\* The errors an article's rendering can end with once its abstract is read.
RenderErrorKinds ==
    {"read template", "parse template", "execute template", "stat", "mkdir",
     "not a directory", "write article", "remove"}

\* C5: an unreadable src/<Id>/body is never an error.  The articleData built
\* for the descriptor says "no body" exactly when the file could not be read,
\* and holds the file's text, marked present, when it could, an empty file
\* included; a run that ends at an article whose body is missing ends with an
\* error of the template, the output directories or the write, and in
\* variant 2 the articleData is built whatever the body read returned.
C5_MissingBodyIsNotAnError ==
    /\ \A k \in 1..Len(articles) :
         IF srcRead[k].body.ok
         THEN BodyIs(articles[k], srcRead[k].body.data)
         ELSE NoBody(articles[k])
    /\ \A k \in 1..Len(srcRead) :
         (srcRead[k].abstract.ok /\ srcRead[k].body = ReadErr) =>
            /\ variant = 2 => Len(articles) >= k
            /\ (pc = "aborted" /\ idx = k - 1) => err.kind \in RenderErrorKinds

\* C5's case: the first article has no body file, the second an empty one;
\* both pages are written, the first without a body, the second with the
\* empty body marked present.
C5_Witness ==
    /\ Len(articles) >= 2
    /\ idx >= 2
    /\ pc = "render"
    /\ srcRead[1].body = ReadErr
    /\ srcRead[2].body = ReadOk("")
    /\ NoBody(articles[1])
    /\ BodyIs(articles[2], "")
    /\ outHtml[descriptors[1].Id] = ArticlePage(1)
    /\ outHtml[descriptors[2].Id] = ArticlePage(2)

\* -------------------------------------------- the front-matter stage on its own

IsInjective(f) == \A i, j \in DOMAIN f : f[i] = f[j] => i = j

\* The Id lists that pass validateDescriptors, in any order.
IndexIdLists == {ids \in SeqsUpTo(1..MaxList, MaxList) : IsInjective(ids)}

\* A run whose articles have all been rendered: main is about to call
\* emitStaticHTMLForFrontMatter.
InitIndex ==
    /\ variant \in {1, 2}
    /\ pc = "render"
    /\ \E ids \in IndexIdLists :
         /\ descriptors =
              [k \in 1..Len(ids) |->
                 IF variant = 1 THEN descriptor1(ids[k], "T", "A", "P")
                 ELSE descriptor2(ids[k], "T", "A", "e", "P")]
         /\ outDir = [id \in 1..MaxList |->
                        IF \E k \in 1..Len(ids) : ids[k] = id
                        THEN "dir" ELSE "absent"]
    /\ articles =
         [k \in 1..Len(descriptors) |->
            IF variant = 1
            THEN articleData1(descriptors[k], "hi", PtrTo("text"))
            ELSE articleData2(descriptors[k], "hi", "text", TRUE)]
    /\ idx = Len(descriptors)
    /\ err = Nil
    /\ buffer = NoFile
    /\ srcRead = [k \in 1..Len(descriptors) |->
                    [abstract |-> ReadOk("hi"), body |-> ReadOk("text")]]
    /\ attempted = 1..Len(descriptors)
    /\ articleDir = "dir"
    /\ outHtml = [id \in 1..MaxList |->
                    IF \E k \in 1..Len(descriptors) : descriptors[k].Id = id
                    THEN ArticlePage(CHOOSE k \in 1..Len(descriptors) :
                                        descriptors[k].Id = id)
                    ELSE NoFile]
    /\ indexFile = OldFile
    /\ tmpFile = NoFile
    /\ index0 = OldFile
    /\ HammerIdle
    /\ nav = NoCalls

NextIndex ==
    \/ EmitFrontMatterExecute
    \/ EmitFrontMatterOpen
    \/ EmitFrontMatterWrite
    \/ Promote

SpecIndex == InitIndex /\ [][NextIndex]_vars

\* The list the front matter is made from: the descriptors in variant 1, the
\* articles in variant 2.
IndexInput == IF variant = 1 THEN descriptors ELSE articles

\* C6: the index template is executed against the last min(L, 5) elements of
\* the input list of length L, in input order: the whole list when L <= 5,
\* the empty list when L = 0.  Both variants.
C6_IndexShowsTrailingFive ==
    buffer # NoFile =>
        LET L == Len(IndexInput)
            n == IF L <= 5 THEN L ELSE 5
            shown == buffer.data
        IN  /\ Len(shown) = n
            /\ \A k \in 1..n : shown[k] = IndexInput[L - n + k]
            /\ L <= 5 => shown = IndexInput
            /\ L = 0 => shown = <<>>

\* C6's case: six articles, not in the order of their Ids; the index was made
\* from the last five and published.
C6_Witness ==
    /\ pc = "done"
    /\ Len(IndexInput) = 6
    /\ IndexInput[1].Id > IndexInput[2].Id
    /\ IndexInput[5].Id > IndexInput[6].Id
    /\ Len(buffer.data) = 5
    /\ buffer.data[1] = IndexInput[2]
    /\ indexFile = buffer

\* ------------------------------------------------------------------ hammer

Letters == <<"a", "b", "c", "d", "e", "f", "g", "h">>

\* The k-th name of the directory, in ioutil.ReadDir's order (sorted by
\* name): "_a" comes before "b", "c", ...
NameOf(k) == IF k = 1 THEN <<"_", Letters[k]>> ELSE <<Letters[k]>>

Names == {NameOf(k) : k \in 1..MaxEntries}

\* Permission bits: 0644 and 0664.
Modes == {{"ur", "uw", "gr", "or"}, {"ur", "uw", "gr", "gw", "or"}}

\* The bits the process's umask clears: 022, or nothing.
Umasks == {{"gw", "ow"}, {}}

\* What a name of the directory can be: nothing, a directory, or a file
\* with a mode.
EntryKinds == {[isDir |-> TRUE, mode |-> {"dir"}]} \cup [isDir : {FALSE}, mode : Modes]

\* The name is not in the directory.
NoEntry == [isDir |-> FALSE, mode |-> {}]

\* The listing of the names choice gives a kind to, in the order of the
\* names.  data is a file's content, which os.FileInfo does not hold and
\* ioutil.ReadFile reads: each file has its own.
RECURSIVE Listing(_, _)
Listing(choice, k) ==
    IF k > MaxEntries THEN <<>>
    ELSE (IF choice[k] = NoEntry THEN <<>>
          ELSE <<[name |-> NameOf(k), isDir |-> choice[k].isDir,
                  mode |-> choice[k].mode,
                  data |-> IF choice[k].isDir THEN "" ELSE Letters[k]]>>)
         \o Listing(choice, k + 1)

NoSiteFile == [present |-> FALSE, data |-> "", mode |-> {}]

\* What an earlier run left in _site: written with mode 0644.
OldSiteFile == [present |-> TRUE, data |-> "old", mode |-> {"ur", "uw", "gr", "or"}]

InitHammer ==
    /\ variant = 0
    /\ pc = "readdir"
    /\ descriptors = <<>>
    /\ articles = <<>>
    /\ idx = 0
    /\ err = Nil
    /\ buffer = NoFile
    /\ srcRead = <<>>
    /\ attempted = {}
    /\ articleDir = "absent"
    /\ outDir = <<>>
    /\ outHtml = <<>>
    /\ indexFile = NoFile
    /\ tmpFile = NoFile
    /\ index0 = NoFile
    /\ \E choice \in [1..MaxEntries -> EntryKinds \cup {NoEntry}] :
         entries = Listing(choice, 1)
    /\ site \in [Names -> {NoSiteFile, OldSiteFile}]
    /\ calls = <<>>
    /\ copied = {}
    /\ umask \in Umasks
    /\ nav = NoCalls

\* outputNameFor: "_site/" + fn.  _site's files are kept by name.
outputNameFor(fn) == fn

\* ioutil.WriteFile(name, data, perm) on _site's file old: the file is opened
\* with O_WRONLY|O_CREATE|O_TRUNC.  A file that exists is truncated and keeps
\* its mode; a new one gets perm less the umask's bits.
HammerWriteFile(old, data, perm, um, w) ==
    LET opened == IF old.present THEN [old EXCEPT !.data = ""]
                  ELSE [present |-> TRUE, data |-> "", mode |-> perm \ um]
    IN  IF w = "none" THEN old
        ELSE IF w = "partial" THEN opened
        ELSE [opened EXCEPT !.data = data]

\* processSourceFile(e) for the j-th entry, under the outcomes of its
\* ReadFile (r) and WriteFile (w).  wrote: WriteFile was called.
processSourceFile(e, j, r, w, st, um) ==
    LET inputName == e.name
        outputName == outputNameFor(inputName)
    IN  IF inputName[1] = "_"
        THEN [err |-> Nil, site |-> st, wrote |-> {}]
        ELSE IF r # "ok"
        THEN [err |-> Err("read file", j), site |-> st, wrote |-> {}]
        ELSE [err |-> IF w = "ok" THEN Nil ELSE Err("write file", j),
              site |-> [st EXCEPT ![outputName] =
                          HammerWriteFile(st[outputName], e.data, e.mode, um, w)],
              wrote |-> {outputName}]

\* OnlyFiles(inp, f) with f = processSourceFile.
OnlyFiles(inp, j, r, w, st, um) ==
    IF inp.isDir THEN [err |-> Nil, site |-> st, wrote |-> {}]
    ELSE processSourceFile(inp, j, r, w, st, um)

\* A plausible slip: the handler's error is dropped and the loop goes on.
ForEachEntryNext_Ignore(e) == [pc |-> "walk", err |-> Nil]

\* ForEachEntry's loop after f(entry) returned e: return it, or go on.
ForEachEntryNext(e) ==
    IF e # Nil THEN [pc |-> "aborted", err |-> e]
    ELSE [pc |-> "walk", err |-> Nil]

hammerIdleBlog ==
    UNCHANGED <<variant, descriptors, articles, idx, articleDir, outDir,
                outHtml, indexFile, tmpFile, index0, buffer, srcRead,
                attempted, nav>>

\* ForEachEntry: ioutil.ReadDir(d).  When it fails main panics with its error.
ReadDir ==
    /\ pc = "readdir"
    /\ \E r \in CallOutcomes :
         IF r = "ok" THEN pc' = "walk" /\ err' = err
         ELSE abend(Err("readdir", 0))
    /\ UNCHANGED <<entries, site, calls, copied, umask>>
    /\ hammerIdleBlog

\* ForEachEntry: one iteration, f(entry) with main's closure for f.  When it
\* returns an error ForEachEntry returns it and main panics.
HandleEntry ==
    /\ pc = "walk"
    /\ Len(calls) < Len(entries)
    /\ \E r \in CallOutcomes, w \in WriteOutcomes :
         LET j == Len(calls) + 1
             h == OnlyFiles(entries[j], j, r, w, site, umask)
             n == ForEachEntryNext(h.err)
         IN  /\ calls' = Append(calls, [entry |-> entries[j], ret |-> h.err])
             /\ site' = h.site
             /\ copied' = copied \cup h.wrote
             /\ pc' = n.pc
             /\ err' = n.err
    /\ UNCHANGED <<entries, umask>>
    /\ hammerIdleBlog

\* ForEachEntry: the entries are exhausted, nil is returned and main ends.
ReturnNil ==
    /\ pc = "walk"
    /\ Len(calls) = Len(entries)
    /\ pc' = "done"
    /\ UNCHANGED <<err, entries, site, calls, copied, umask>>
    /\ hammerIdleBlog

NextHammer ==
    \/ ReadDir
    \/ HandleEntry
    \/ ReturnNil

\* A run of the hammer command.
SpecHammer == InitHammer /\ [][NextHammer]_vars

\* C7 as the spec states it: after a successful run, every entry that is no
\* directory and whose name does not begin with an underscore has, under
\* _site, a file with the source file's bytes and the source file's mode;
\* for every other entry nothing was written under _site.
C7_CopiesBytesAndMode ==
    pc = "done" =>
        \A j \in 1..Len(entries) :
            LET e == entries[j] IN
            IF ~e.isDir /\ e.name[1] # "_"
            THEN site[e.name] = [present |-> TRUE, data |-> e.data,
                                 mode |-> e.mode]
            ELSE e.name \notin copied

\* C8: the handler is invoked once per entry, in the listing's order, up to
\* the first error it returns; ForEachEntry then returns that error and the
\* handler is invoked for no later entry; when reading the directory fails,
\* the handler is never invoked and the read error is returned.  So in the
\* hammer command no file after the one whose read or write failed is copied.
C8_StopsAtFirstHandlerError ==
    /\ Len(calls) <= Len(entries)
    /\ \A k \in 1..Len(calls) : calls[k].entry = entries[k]
    /\ \A k \in 1..(Len(calls) - 1) : calls[k].ret = Nil
    /\ pc = "done" => (err = Nil /\ Len(calls) = Len(entries))
    /\ pc = "walk" => \A k \in 1..Len(calls) : calls[k].ret = Nil
    /\ (pc = "aborted" /\ err.kind = "readdir") => calls = <<>>
    /\ (pc = "aborted" /\ err.kind # "readdir") =>
         /\ calls # <<>>
         /\ err = calls[Len(calls)].ret
         /\ err # Nil
         /\ \A j \in (Len(calls) + 1)..Len(entries) :
              entries[j].name \notin copied

\* C8's case: a file was copied, reading the next one failed, and the last
\* entry, a file that would have been copied, was left alone.
C8_Witness ==
    /\ pc = "aborted"
    /\ Len(entries) >= 3
    /\ Len(calls) = Len(entries) - 1
    /\ ~entries[Len(entries)].isDir
    /\ entries[Len(entries)].name[1] # "_"
    /\ entries[Len(entries)].name \notin copied
    /\ err = Err("read file", Len(calls))
    /\ site[entries[Len(calls) - 1].name].data = entries[Len(calls) - 1].data

\* ------------------------------------------------------ the order of a run

\* The stages of main, in the order of its statements.
StageRank(p) ==
    CASE p = "load" -> 0
      [] p = "validate" -> 1
      [] p = "fetch" -> 2
      [] p = "render" -> 3
      [] p = "indexopen" -> 4
      [] p = "indexwrite" -> 5
      [] p = "promote" -> 6
      [] p = "done" -> 7
      [] p = "aborted" -> 8

\* Validation passed and every article of the input was rendered, its page
\* written to its end.
AllArticlesRendered ==
    /\ validateDescriptors(variant, descriptors) = Nil
    /\ Len(articles) = Len(descriptors)
    /\ attempted = 1..Len(descriptors)
    /\ \A j \in 1..Len(descriptors) :
         outHtml[descriptors[j].Id] = ArticlePage(j)

\* One step of a run, as C11 describes it.
C11_Step ==
    \* a stage that failed ended the run: nothing follows an error
    /\ err = Nil
    /\ pc \notin {"done", "aborted"}
    \* the stages follow one another in main's order, none is gone back to
    /\ StageRank(pc') >= StageRank(pc)
    /\ pc' = "validate" => pc = "load"
    /\ pc' = "fetch" => variant = 2 /\ pc \in {"validate", "fetch"}
    /\ pc' = "render" =>
         pc \in {IF variant = 1 THEN "validate" ELSE "fetch", "render"}
    /\ pc' = "indexopen" => pc = "render"
    /\ pc' = "indexwrite" => pc = "indexopen"
    /\ pc' = "promote" => pc = "indexwrite"
    /\ pc' = "done" => pc = "promote"
    \* descriptors are fetched, and articles rendered, in input order, after
    \* validation passed
    /\ srcRead' # srcRead =>
         /\ validateDescriptors(variant, descriptors) = Nil
         /\ Len(srcRead') = Len(srcRead) + 1
         /\ variant = 2 => attempted = {}
    /\ attempted' # attempted =>
         /\ validateDescriptors(variant, descriptors) = Nil
         /\ attempted' = 1..(Cardinality(attempted) + 1)
         /\ attempted = 1..Cardinality(attempted)
         /\ \A j \in attempted :
              outHtml[descriptors[j].Id] = ArticlePage(j)
         /\ variant = 2 => Len(srcRead) = Len(descriptors)
    \* the index is written to the temporary file, and renamed into place,
    \* only after validation and every article's rendering succeeded
    /\ (tmpFile' # tmpFile \/ indexFile' # indexFile \/ buffer' # buffer) =>
         AllArticlesRendered
    /\ indexFile' # indexFile => pc = "promote" /\ pc' = "done"

\* C11: in both variants a run goes through load, validate, (fetch,) the
\* articles in input order, the index and its promotion, in this order; the
\* first stage or article that fails ends the run, so that no later article
\* is rendered and the index is neither written to the temporary file nor
\* renamed into place; ./index.html is replaced only in a run where
\* validation and every article's rendering succeeded.
C11_StagesInOrder == [][C11_Step]_vars

\* C11's case: the second of three articles failed after the first was
\* written; the third was not rendered and no index was written.
C11_Witness ==
    /\ pc = "aborted"
    /\ Len(descriptors) = 3
    /\ attempted = {1, 2}
    /\ outHtml[descriptors[1].Id] = ArticlePage(1)
    /\ buffer = NoFile
    /\ tmpFile = NoFile
    /\ indexFile = index0

\* ------------------------------------------- the error of a failed rendering

\* The failures of an article's rendering that are followed by a call of
\* unlinkHtmlAndDir: in variant 2 those of emitStaticHTMLForArticle, in
\* variant 1 that of generateIndexFile alone.
CleanedUpErrorKinds ==
    IF variant = 1 THEN {"write article"}
    ELSE {"read template", "parse template", "execute template",
          "write article"}

\* C12 as the spec states it: in both variants, when an article's rendering
\* failed and the removal of <articleDir>/<id> was attempted, then if the
\* removal failed too the error the run reports combines the removal's error
\* with the rendering's error, and if the removal succeeded the error
\* reported is the rendering's error itself, the directory being gone.
C12_CleanupErrorCombined ==
    pc = "aborted" =>
        LET id == descriptors[idx + 1].Id IN
        /\ err.kind = "remove" =>
             /\ err.id = id
             /\ err.inner \in CleanedUpErrorKinds
        /\ (err.kind \in CleanedUpErrorKinds /\ err.id # 0) =>
             /\ err = Err(err.kind, id)
             /\ outDir[id] = "absent"
             /\ outHtml[id] = NoFile

\* ------------------------------- the article template's execution on its own

\* Variant 2, emitStaticHTMLForArticle(articles, i, len(articles)) at
\* tmpl.Execute, for every list of articles that passes validation and every
\* index generateArticlePages' loop gives: the articles before it are
\* written, its own directory is made.
InitNav ==
    /\ variant = 2
    /\ pc = "execute"
    /\ \E ids \in {l \in SeqsUpTo(Ids, MaxArticles) : IsInjective(l)} :
         /\ Len(ids) >= 1
         /\ descriptors =
              [k \in 1..Len(ids) |-> descriptor2(ids[k], "T", "A", "e", "P")]
    /\ articles =
         [k \in 1..Len(descriptors) |->
            articleData2(descriptors[k], "hi", "text", TRUE)]
    /\ idx \in 0..(Len(articles) - 1)
    /\ err = Nil
    /\ buffer = NoFile
    /\ srcRead = [k \in 1..Len(descriptors) |->
                    [abstract |-> ReadOk("hi"), body |-> ReadOk("text")]]
    /\ attempted = 1..(idx + 1)
    /\ articleDir = "dir"
    /\ outDir = [id \in Ids |->
                   IF \E k \in 1..(idx + 1) : descriptors[k].Id = id
                   THEN "dir" ELSE "absent"]
    /\ outHtml = [id \in Ids |->
                    IF \E k \in 1..idx : descriptors[k].Id = id
                    THEN ArticlePage(CHOOSE k \in 1..idx :
                                        descriptors[k].Id = id)
                    ELSE NoFile]
    /\ indexFile = OldFile
    /\ tmpFile = NoFile
    /\ index0 = OldFile
    /\ HammerIdle
    /\ nav = NoCalls

\* The execution's other variables.
navFrame ==
    UNCHANGED <<variant, descriptors, articles, idx, err, articleDir, outDir,
                outHtml, indexFile, tmpFile, index0, buffer, srcRead,
                attempted, entries, site, calls, copied, umask>>

\* The template calls HasNextLink .i .last
CallHasNextLink ==
    /\ pc = "execute"
    /\ nav.hasNext = <<>>
    /\ LET p == params2(articles, idx + 1) IN
         nav' = [nav EXCEPT !.hasNext = <<HasNextLink(p.i, p.last)>>]
    /\ pc' = pc
    /\ navFrame

\* The template calls HasPrevLink .i
CallHasPrevLink ==
    /\ pc = "execute"
    /\ nav.hasPrev = <<>>
    /\ LET p == params2(articles, idx + 1) IN
         nav' = [nav EXCEPT !.hasPrev = <<HasPrevLink(p.i)>>]
    /\ pc' = pc
    /\ navFrame

\* The template calls NextArticle .i, under a test of HasNextLink or not.
CallNextArticle ==
    /\ pc = "execute"
    /\ nav.next = <<>>
    /\ LET p == params2(articles, idx + 1)
           r == NextArticle(articles, p.i)
       IN  /\ nav' = [nav EXCEPT !.next = <<r>>]
           /\ pc' = IF r.panic THEN "panicked" ELSE pc
    /\ navFrame

\* The template calls PrevArticle .i, under a test of HasPrevLink or not.
CallPrevArticle ==
    /\ pc = "execute"
    /\ nav.prev = <<>>
    /\ LET p == params2(articles, idx + 1)
           r == PrevArticle(articles, p.i)
       IN  /\ nav' = [nav EXCEPT !.prev = <<r>>]
           /\ pc' = IF r.panic THEN "panicked" ELSE pc
    /\ navFrame

NextNav ==
    \/ CallHasNextLink
    \/ CallHasPrevLink
    \/ CallNextArticle
    \/ CallPrevArticle

SpecNav == InitNav /\ [][NextNav]_vars

\* C13: in variant 2, for the article at index i of a list of L >= 1 articles,
\* rendered with last = L, HasNextLink(i, L) is true exactly when
\* i + 1 <= L - 1 and HasPrevLink(i) exactly when i - 1 >= 0; NextArticle(i)
\* called where HasNextLink holds, and PrevArticle(i) called where
\* HasPrevLink holds, index inside the list and return the article at
\* position i + 1, resp. i - 1, of the input order; an index out of range
\* comes only from a call made where the test does not hold.
C13_GuardedLinksStayInside ==
    LET i == idx
        L == Len(articles)
        p == params2(articles, idx + 1)
    IN  /\ L >= 1 /\ i \in 0..(L - 1)
        /\ p.i = i /\ p.last = L /\ p.a = articles[i + 1]
        /\ nav.hasNext # <<>> => nav.hasNext[1] = (i + 1 <= L - 1)
        /\ nav.hasPrev # <<>> => nav.hasPrev[1] = (i - 1 >= 0)
        /\ (nav.next # <<>> /\ HasNextLink(p.i, p.last)) =>
             /\ ~nav.next[1].panic
             /\ nav.next[1].article = <<articles[(i + 1) + 1]>>
        /\ (nav.prev # <<>> /\ HasPrevLink(p.i)) =>
             /\ ~nav.prev[1].panic
             /\ nav.prev[1].article = <<articles[(i - 1) + 1]>>
        /\ pc = "panicked" =>
             \/ nav.next # <<>> /\ nav.next[1].panic
                  /\ ~HasNextLink(p.i, p.last)
             \/ nav.prev # <<>> /\ nav.prev[1].panic /\ ~HasPrevLink(p.i)

\* C13's case: the template of the middle article of three tested both links
\* and fetched both neighbours.
C13_Witness ==
    /\ Len(articles) = 3
    /\ idx = 1
    /\ nav.hasNext = <<TRUE>>
    /\ nav.hasPrev = <<TRUE>>
    /\ nav.next # <<>>
    /\ nav.next[1].article = <<articles[3]>>
    /\ nav.prev # <<>>
    /\ nav.prev[1].article = <<articles[1]>>
    /\ pc = "execute"

\* ------------------------------------------ fetching and the output tree

\* Every output path: the article directory, the articles' directories and
\* pages, the temporary index and the index.
OutputTree == <<articleDir, outDir, outHtml, tmpFile, indexFile>>

\* Variant 2 has not yet fetched the abstracts and bodies of all descriptors.
FetchUnfinished ==
    \/ pc \in {"load", "validate"}
    \/ pc = "fetch" /\ idx < Len(descriptors)

\* One step of a run, as C14 describes it.
C14_Step ==
    /\ (variant = 2 /\ FetchUnfinished) => OutputTree' = OutputTree
    /\ (variant = 2 /\ OutputTree' # OutputTree) =>
         /\ Len(srcRead) = Len(descriptors)
         /\ Len(articles) = Len(descriptors)
         /\ \A k \in 1..Len(srcRead) : srcRead[k].abstract.ok
    /\ (variant = 2 /\ err'.kind = "read abstract") =>
         /\ pc = "fetch" /\ pc' = "aborted"
         /\ attempted' = {}
         /\ tmpFile' = NoFile /\ indexFile' = index0
         /\ \A id \in Ids : outHtml'[id] \in {NoFile, OldFile}
    /\ (variant = 1 /\ err'.kind = "read abstract") =>
         LET K == idx + 1 IN
           /\ pc = "render" /\ pc' = "aborted"
           /\ AbstractUnreadable(K)'
           /\ OutputTree' = OutputTree
           /\ \A j \in 1..(K - 1) :
                /\ j \in attempted
                /\ srcRead[j].abstract.ok
                /\ outDir[descriptors[j].Id] = "dir"
                /\ outHtml[descriptors[j].Id] = ArticlePage(j)

\* C14: in variant 2 no step made before the abstracts and bodies of all
\* descriptors are fetched creates, changes or deletes an output path, so a
\* run that a fetch error ends has left the output tree as it found it; in
\* variant 1 the fetch error of the article at position K comes when the
\* pages of the articles at positions 1..K-1 are written.
C14_FetchBeforeAnyOutput == [][C14_Step]_vars

\* C14's case: variant 2 fetched two descriptors, could not read the third
\* one's abstract, and ended with not even the article directory made.
C14_Witness ==
    /\ variant = 2
    /\ pc = "aborted"
    /\ Len(descriptors) = 3
    /\ AbstractUnreadable(3)
    /\ Len(articles) = 2
    /\ articleDir = "absent"
    /\ tmpFile = NoFile
    /\ indexFile = index0

====
